---------------------------- MODULE Spec2Model ----------------------------
(***************************************************************************)
(* Model of telegram-video-converter (src/src/main.rs): a command-line     *)
(* wrapper that validates its arguments, derives an output path, assembles *)
(* an ffmpeg command line, runs it and reports sizes.                      *)
(*                                                                         *)
(* Spec       the run of main(), one action per stage of the function.     *)
(* SpecBytes  format_bytes applied to byte counts drawn from ByteInputs.   *)
(*                                                                         *)
(* Text is modelled as sequences of one-character strings where the code   *)
(* inspects characters (paths), and as TLA+ strings where it only passes   *)
(* them on (the encoder's parameters, the diagnostics).                    *)
(*                                                                         *)
(* u32 and u64 values exceed TLC's integers, so they are kept as numbers   *)
(* in base 2^16: little-endian sequences of limbs with no leading zero     *)
(* limb (zero is the empty sequence).                                      *)
(***************************************************************************)
EXTENDS Integers, Sequences, FiniteSets, TLC

VARIABLES
    pc,           \* the stage main() is about to execute, or "exited"
    argv,         \* the command line of the run
    args,         \* the parsed Args record, None before parsing
    overflow_checks, \* build profile: TRUE panics on u32 overflow, FALSE wraps
    fs,           \* the paths that exist on the filesystem
    output_path,  \* main's local output_path, None before it is bound
    cmd,          \* the parameter list given to Command::new("ffmpeg")
    children,     \* the child processes launched so far, in order
    written,      \* the paths created or modified during the run
    stdout,       \* lines printed with println!
    stderr,       \* lines printed with eprintln!
    exit_code,    \* None while running, then the process exit status
    trace,        \* the stages executed so far, in order
    bytes_in,     \* SpecBytes: the argument of format_bytes
    bytes_out     \* SpecBytes: its result, None before the call

vars == <<pc, argv, args, overflow_checks, fs, output_path, cmd, children, written,
          stdout, stderr, exit_code, trace, bytes_in, bytes_out>>

(***************************************************************************)
(* Bounds of the model.                                                    *)
(***************************************************************************)
\* Longest input path, in characters.
MaxPathLen == 3

\* Byte counts m * 1024^k + d are drawn with m in 1..MaxMant.
MaxMant == 3

(***************************************************************************)
(* Unbounded naturals in base 2^16.                                        *)
(***************************************************************************)
Base == 2^16

RECURSIVE BigNorm(_)
BigNorm(x) ==
    IF x = <<>> THEN <<>>
    ELSE IF x[Len(x)] = 0 THEN BigNorm(SubSeq(x, 1, Len(x) - 1))
    ELSE x

\* A natural below 2^31 as a number.
RECURSIVE BigOf(_)
BigOf(n) == IF n = 0 THEN <<>> ELSE <<n % Base>> \o BigOf(n \div Base)

\* x * m + c for small m and c.
RECURSIVE BigMulAdd(_, _, _)
BigMulAdd(x, m, c) ==
    IF x = <<>> THEN BigOf(c)
    ELSE LET t == x[1] * m + c
         IN  BigNorm(<<t % Base>> \o BigMulAdd(Tail(x), m, t \div Base))

BigMulSmall(x, m) == BigMulAdd(x, m, 0)

BigAddSmall(x, c) == BigMulAdd(x, 1, c)

\* Quotient and remainder of x by a small d, most significant limb first.
RECURSIVE BigDivMod(_, _)
BigDivMod(x, d) ==
    IF x = <<>> THEN [q |-> <<>>, r |-> 0]
    ELSE LET hi == BigDivMod(Tail(x), d)
             t  == hi.r * Base + x[1]
         IN  [q |-> BigNorm(<<t \div d>> \o hi.q), r |-> t % d]

\* x mod 2^(16 * limbs): the low limbs of x.
BigLow(x, limbs) == BigNorm(SubSeq(x, 1, IF Len(x) < limbs THEN Len(x) ELSE limbs))

\* x < y
RECURSIVE BigLess(_, _)
BigLess(x, y) ==
    IF Len(x) # Len(y) THEN Len(x) < Len(y)
    ELSE IF x = <<>> THEN FALSE
    ELSE IF x[Len(x)] # y[Len(y)] THEN x[Len(x)] < y[Len(y)]
    ELSE BigLess(BigNorm(SubSeq(x, 1, Len(x) - 1)), BigNorm(SubSeq(y, 1, Len(y) - 1)))

\* x * 2^(10 * k) and x \div 2^(10 * k)
RECURSIVE BigShl10(_, _)
BigShl10(x, k) == IF k = 0 THEN x ELSE BigShl10(BigMulSmall(x, 1024), k - 1)

RECURSIVE BigShr10(_, _)
BigShr10(x, k) == IF k = 0 THEN x ELSE BigShr10(BigDivMod(x, 1024).q, k - 1)

\* The number of significant bits of x.
RECURSIVE BitLenSmall(_)
BitLenSmall(n) == IF n = 0 THEN 0 ELSE 1 + BitLenSmall(n \div 2)

BigBitLen(x) == IF x = <<>> THEN 0 ELSE 16 * (Len(x) - 1) + BitLenSmall(x[Len(x)])

(***************************************************************************)
(* Decimal text of a number: Display for u32 and u64 (to_string, "{}").    *)
(***************************************************************************)
DigitChar == <<"0", "1", "2", "3", "4", "5", "6", "7", "8", "9">>

RECURSIVE DecDigits(_)
DecDigits(x) ==
    LET dm == BigDivMod(x, 10)
    IN  IF dm.q = <<>> THEN DigitChar[dm.r + 1]
        ELSE DecDigits(dm.q) \o DigitChar[dm.r + 1]

to_string(x) == DecDigits(x)

\* The text of a sequence of characters.
RECURSIVE Str(_)
Str(s) == IF s = <<>> THEN "" ELSE Head(s) \o Str(Tail(s))

(***************************************************************************)
(* std::path on Unix, as far as generate_output_path uses it.  A path is a *)
(* sequence of characters; "/" is the only separator.                      *)
(***************************************************************************)
is_sep(c) == c = "/"

has_root(p) == Len(p) > 0 /\ is_sep(p[1])

\* Components::include_cur_dir: the path starts with a "." component.
include_cur_dir(p) ==
    /\ ~has_root(p)
    /\ Len(p) > 0
    /\ p[1] = "."
    /\ (Len(p) = 1 \/ is_sep(p[2]))

\* Components::len_before_body: the root or the leading "." component.
len_before_body(p) ==
    (IF has_root(p) THEN 1 ELSE 0) + (IF include_cur_dir(p) THEN 1 ELSE 0)

\* The index of the last separator of s, 0 when it has none.
RECURSIVE rposition_sep(_)
rposition_sep(s) ==
    IF s = <<>> THEN 0
    ELSE IF is_sep(s[Len(s)]) THEN Len(s)
    ELSE rposition_sep(SubSeq(s, 1, Len(s) - 1))

\* Option<T>: None is the empty sequence, Some(v) the sequence of v alone.
None == <<>>

Some(v) == <<v>>

unwrap(o) == o[1]

\* parse_single_component: "" and "." are no component of the body.
parse_single_component(comp) ==
    IF comp = <<>> \/ comp = <<".">> THEN None
    ELSE IF comp = <<".", ".">> THEN Some([kind |-> "ParentDir", name |-> comp])
    ELSE Some([kind |-> "Normal", name |-> comp])

\* Components::parse_next_component_back: the last piece of the body and
\* the number of characters it takes, its separator included.
parse_next_component_back(p) ==
    LET start == len_before_body(p)
        body  == SubSeq(p, start + 1, Len(p))
        i     == rposition_sep(body)
        comp  == SubSeq(body, i + 1, Len(body))
    IN  [size |-> Len(comp) + (IF i = 0 THEN 0 ELSE 1),
         comp |-> parse_single_component(comp)]

\* Components::next_back from a fresh iterator: the last component, the
\* path left in front of it, and whether the iterator is still in the body.
RECURSIVE next_back(_)
next_back(p) ==
    IF Len(p) > len_before_body(p)
    THEN LET nc   == parse_next_component_back(p)
             rest == SubSeq(p, 1, Len(p) - nc.size)
         IN  IF nc.comp # None THEN [comp |-> nc.comp, rest |-> rest, body |-> TRUE]
             ELSE next_back(rest)
    ELSE IF has_root(p)
    THEN [comp |-> Some([kind |-> "RootDir", name |-> <<"/">>]),
          rest |-> SubSeq(p, 1, Len(p) - 1), body |-> FALSE]
    ELSE IF include_cur_dir(p)
    THEN [comp |-> Some([kind |-> "CurDir", name |-> <<".">>]),
          rest |-> SubSeq(p, 1, Len(p) - 1), body |-> FALSE]
    ELSE [comp |-> None, rest |-> p, body |-> FALSE]

\* Components::trim_right: drop trailing separators and "." pieces.
RECURSIVE trim_right(_)
trim_right(p) ==
    IF Len(p) > len_before_body(p)
    THEN LET nc == parse_next_component_back(p)
         IN  IF nc.comp # None THEN p
             ELSE trim_right(SubSeq(p, 1, Len(p) - nc.size))
    ELSE p

\* Components::as_path after next_back.
as_path(nb) == IF nb.body THEN trim_right(nb.rest) ELSE nb.rest

\* Path::parent: None for a root or an empty path.
Path_parent(p) ==
    LET nb == next_back(p)
    IN  IF nb.comp = None THEN None
        ELSE IF unwrap(nb.comp).kind \in {"Normal", "CurDir", "ParentDir"}
        THEN Some(as_path(nb))
        ELSE None

\* Path::file_name: the last component when it is a normal one.
Path_file_name(p) ==
    LET nb == next_back(p)
    IN  IF nb.comp = None THEN None
        ELSE IF unwrap(nb.comp).kind = "Normal" THEN Some(unwrap(nb.comp).name)
        ELSE None

\* The index of the last "." of s, 0 when it has none.
RECURSIVE rposition_dot(_)
rposition_dot(s) ==
    IF s = <<>> THEN 0
    ELSE IF s[Len(s)] = "." THEN Len(s)
    ELSE rposition_dot(SubSeq(s, 1, Len(s) - 1))

\* rsplit_file_at_dot, then before.or(after): the name up to its last ".",
\* the whole name when it has no "." or only a leading one.
rsplit_stem(file) ==
    LET i == rposition_dot(file)
    IN  IF file = <<".", ".">> THEN file
        ELSE IF i = 0 THEN file
        ELSE IF i = 1 THEN file
        ELSE SubSeq(file, 1, i - 1)

\* Path::file_stem
Path_file_stem(p) ==
    IF Path_file_name(p) = None THEN None
    ELSE Some(rsplit_stem(unwrap(Path_file_name(p))))

\* Path::join (PathBuf::push): an absolute argument replaces the path, a
\* separator is added unless the path is empty or ends with one.
Path_join(base, p) ==
    IF has_root(p) THEN p
    ELSE IF base # <<>> /\ ~is_sep(base[Len(base)]) THEN base \o <<"/">> \o p
    ELSE base \o p

Suffix == <<"_", "t", "e", "l", "e", "g", "r", "a", "m", ".", "m", "p", "4">>

\* fn generate_output_path: None stands for the panic of unwrap() on a path
\* with no file stem, Some(path) for a returned path.
generate_output_path(input_path) ==
    LET parent == IF Path_parent(input_path) = None THEN <<".">>
                  ELSE unwrap(Path_parent(input_path))
        stem   == Path_file_stem(input_path)
    IN  IF stem = None THEN None
        ELSE Some(Path_join(parent, unwrap(stem) \o Suffix))

(***************************************************************************)
(* fn format_bytes.  An f64 holding a byte count is a number with at most  *)
(* 53 significant bits divided by a power of 1024, so it is kept exactly   *)
(* as [m, k] standing for m / 1024^k.                                      *)
(***************************************************************************)
UNITS == <<"B", "KB", "MB", "GB">>

\* x - 1 for x > 0.
RECURSIVE BigPred(_)
BigPred(x) ==
    IF x[1] > 0 THEN BigNorm(<<x[1] - 1>> \o Tail(x))
    ELSE <<Base - 1>> \o BigPred(Tail(x))

\* `bytes as f64`: the nearest number with 53 significant bits, a tie going
\* to the even mantissa.  At most 11 bits are dropped, all in the low limb.
u64_as_f64(bytes) ==
    LET s    == BigBitLen(bytes) - 53
        rem  == bytes[1] % (2^s)
        down == BigNorm(<<bytes[1] - rem>> \o Tail(bytes))
        up   == BigAddSmall(down, 2^s)
        odd  == (bytes[1] \div (2^s)) % 2 = 1
    IN  IF s <= 0 THEN bytes
        ELSE IF 2 * rem > 2^s \/ (2 * rem = 2^s /\ odd) THEN up
        ELSE down

\* scale_loop with `size > 1024.0` for `size >= 1024.0`.
RECURSIVE scale_loop_gt(_, _)
scale_loop_gt(m, k) ==
    IF BigLess(BigShl10(BigOf(1), k + 1), m) /\ k < Len(UNITS) - 1
    THEN scale_loop_gt(m, k + 1)
    ELSE [m |-> m, k |-> k]

\* The while loop of format_bytes from (size, unit_index) = (m / 1024^k, k).
RECURSIVE scale_loop(_, _)
scale_loop(m, k) ==
    IF BigShr10(m, k + 1) # <<>> /\ k < Len(UNITS) - 1
    THEN scale_loop(m, k + 1)
    ELSE [m |-> m, k |-> k]

\* The remainder of x by 1024^k, for k <= 3.
RECURSIVE BigRem10(_, _)
BigRem10(x, k) ==
    IF k = 0 THEN 0
    ELSE BigDivMod(x, 1024).r + 1024 * BigRem10(BigDivMod(x, 1024).q, k - 1)

\* "{:.1}" of m / 1024^k: the exact value rounded to tenths, a tie going to
\* the even digit, as text.
fmt_f64_1(m, k) ==
    LET x10    == BigMulSmall(m, 10)
        q      == BigShr10(x10, k)
        r      == BigRem10(x10, k)
        d      == 2^(10 * k)
        odd    == q # <<>> /\ q[1] % 2 = 1
        tenths == IF 2 * r > d \/ (2 * r = d /\ odd) THEN BigAddSmall(q, 1) ELSE q
        dm     == BigDivMod(tenths, 10)
    IN  to_string(dm.q) \o "." \o DigitChar[dm.r + 1]

format_bytes(bytes) ==
    LET size == scale_loop(u64_as_f64(bytes), 0)
    IN  fmt_f64_1(size.m, size.k) \o " " \o UNITS[size.k + 1]

(***************************************************************************)
(* The command line and the environment of a run.                          *)
(***************************************************************************)
Alphabet == {"/", ".", "a"}

RECURSIVE SeqsOfLen(_)
SeqsOfLen(n) ==
    IF n = 0 THEN {<<>>}
    ELSE {<<c>> \o s : c \in Alphabet, s \in SeqsOfLen(n - 1)}

\* The input paths of the model: every text of at most MaxPathLen characters.
InputPaths == UNION {SeqsOfLen(n) : n \in 0..MaxPathLen}

\* The values of -o: absent, the file "a", the file "o.mp4".
OutputOptions == {None, Some(<<"a">>), Some(<<"o", ".", "m", "p", "4">>)}

U32_MAX == <<Base - 1, Base - 1>>

\* The values of -b: absent, 0, 2^31 - 1, 2^31, 2^32 - 1 and 2^32.
BitrateOptions ==
    {None, Some(<<>>), Some(<<Base - 1, 2^15 - 1>>), Some(<<0, 2^15>>),
     Some(U32_MAX), Some(<<0, 0, 1>>)}

\* What the user typed: the positional input, the flags given, or --help.
RunArgv ==
    [help : {FALSE}, input : InputPaths, output : OutputOptions,
     bitrate : BitrateOptions, overwrite : BOOLEAN, verbose : BOOLEAN]

HelpArgv ==
    [help |-> TRUE, input |-> <<>>, output |-> None, bitrate |-> None,
     overwrite |-> FALSE, verbose |-> FALSE]

\* A path made of "/", "." and ".." components only names a directory that
\* always exists.
RECURSIVE AlwaysExists(_)
AlwaysExists(p) ==
    LET nb == next_back(p)
    IN  /\ p # <<>>
        /\ nb.comp # None
        /\ unwrap(nb.comp).kind # "Normal"
        /\ (as_path(nb) = <<>> \/ AlwaysExists(as_path(nb)))

\* The paths a run with this command line looks at.
PathsOf(a) ==
    {a.input}
    \cup (IF a.output # None THEN {unwrap(a.output)}
          ELSE IF generate_output_path(a.input) # None
          THEN {unwrap(generate_output_path(a.input))}
          ELSE {})

\* The filesystems a run may start in, as the set of those paths that exist.
Filesystems(a) ==
    {f \in SUBSET PathsOf(a) :
        /\ <<>> \notin f
        /\ \A p \in PathsOf(a) : AlwaysExists(p) => p \in f}

\* Path::exists
exists(f, p) == p \in f

(***************************************************************************)
(* main(), lines 42-163.                                                   *)
(***************************************************************************)
DEFAULT_BITRATE == BigOf(2000)

DEFAULT_AUDIO_BITRATE == BigOf(128)

DEFAULT_FPS == BigOf(25)

DEFAULT_CRF == BigOf(23)

\* The Args record clap builds from a well-formed command line.
ArgsOf(a) ==
    [input |-> a.input, output |-> a.output,
     bitrate |-> IF a.bitrate = None THEN DEFAULT_BITRATE ELSE unwrap(a.bitrate),
     audio_bitrate |-> DEFAULT_AUDIO_BITRATE, fps |-> DEFAULT_FPS,
     crf |-> DEFAULT_CRF, overwrite |-> a.overwrite, verbose |-> a.verbose]

\* A value clap's u32 parser accepts.
is_u32(x) == ~BigLess(U32_MAX, x)

\* next_stage with the output-exists check moved after the conversion.
next_stage_check_after_run(stage) ==
    CASE stage = "parse"          -> "check_input"
      [] stage = "check_input"    -> "check_ffmpeg"
      [] stage = "check_ffmpeg"   -> "resolve_output"
      [] stage = "resolve_output" -> "assemble"
      [] stage = "assemble"       -> "execute"
      [] stage = "execute"        -> "check_output"
      [] stage = "check_output"   -> "report"
      [] stage = "report"         -> "exited"

\* next_stage with the encoder probe before the input check.
next_stage_probe_first(stage) ==
    CASE stage = "parse"          -> "check_ffmpeg"
      [] stage = "check_ffmpeg"   -> "check_input"
      [] stage = "check_input"    -> "resolve_output"
      [] stage = "resolve_output" -> "check_output"
      [] stage = "check_output"   -> "assemble"
      [] stage = "assemble"       -> "execute"
      [] stage = "execute"        -> "report"
      [] stage = "report"         -> "exited"

\* The order of the stages of main.
next_stage(stage) ==
    CASE stage = "parse"          -> "check_input"
      [] stage = "check_input"    -> "check_ffmpeg"
      [] stage = "check_ffmpeg"   -> "resolve_output"
      [] stage = "resolve_output" -> "check_output"
      [] stage = "check_output"   -> "assemble"
      [] stage = "assemble"       -> "execute"
      [] stage = "execute"        -> "report"
      [] stage = "report"         -> "exited"

\* exit(code), the return from main (code 0) or a panic (code 101).
Exit(code) ==
    /\ pc' = "exited"
    /\ exit_code' = Some(code)

Continue ==
    /\ pc' = next_stage(pc)
    /\ exit_code' = exit_code

Did(stage) == trace' = Append(trace, stage)

PANIC_CODE == 101

USAGE_CODE == 2

\* Line 43, Args::parse(): --help prints the usage and exits 0, a -b value
\* that is no u32 is a usage error (exit 2), anything else yields Args.
Parse ==
    /\ pc = "parse"
    /\ Did("Parse")
    /\ IF argv.help
       THEN /\ Exit(0)
            /\ stdout' = Append(stdout, "Usage: telegram-video-converter [OPTIONS] <INPUT>")
            /\ UNCHANGED <<args, stderr>>
       ELSE IF argv.bitrate # None /\ ~is_u32(unwrap(argv.bitrate))
       THEN /\ Exit(USAGE_CODE)
            /\ stderr' = Append(stderr, "error: invalid value '"
                                        \o to_string(unwrap(argv.bitrate))
                                        \o "' for '--bitrate <BITRATE>'")
            /\ UNCHANGED <<args, stdout>>
       ELSE /\ Continue
            /\ args' = Some(ArgsOf(argv))
            /\ UNCHANGED <<stdout, stderr>>
    /\ UNCHANGED <<argv, overflow_checks, fs, output_path, cmd, children, written,
                   bytes_in, bytes_out>>

\* input_missing without the negation of line 46.
input_missing_inverted(f, input) == exists(f, input)

\* Line 46: the input file is missing.
input_missing(f, input) == ~exists(f, input)

\* Lines 45-49: check if input file exists.
CheckInput ==
    /\ pc = "check_input"
    /\ Did("CheckInput")
    /\ IF input_missing(fs, unwrap(args).input)
       THEN /\ Exit(1)
            /\ stderr' = Append(stderr, "Error: File '" \o Str(unwrap(args).input)
                                        \o "' not found")
       ELSE /\ Continue
            /\ UNCHANGED stderr
    /\ UNCHANGED <<argv, args, overflow_checks, fs, output_path, cmd, children,
                   written, stdout, bytes_in, bytes_out>>

\* A child process: the call that launched it, its parameters, whether it
\* could be started and the status it ended with (None: not started, or
\* ended by a signal).
Child(call, params, spawned, code) ==
    [program |-> "ffmpeg", call |-> call, params |-> params,
     spawned |-> spawned, code |-> code]

\* is_ffmpeg_available ignoring the result of output().
is_ffmpeg_available_always(spawned) == TRUE

\* Lines 165-167, fn is_ffmpeg_available: output() is Ok when the child was
\* started, whatever status it ends with.
is_ffmpeg_available(spawned) == spawned

\* Lines 51-55: check if ffmpeg is installed.
CheckFfmpeg ==
    /\ pc = "check_ffmpeg"
    /\ Did("CheckFfmpeg")
    /\ \E spawned \in BOOLEAN :
        /\ children' = Append(children,
                              Child("output", <<"-version">>, spawned,
                                    IF spawned THEN Some(0) ELSE None))
        /\ IF ~is_ffmpeg_available(spawned)
           THEN /\ Exit(1)
                /\ stderr' = Append(stderr, "Error: ffmpeg is not installed or not in PATH")
           ELSE /\ Continue
                /\ UNCHANGED stderr
    /\ UNCHANGED <<argv, args, overflow_checks, fs, output_path, cmd, written,
                   stdout, bytes_in, bytes_out>>

\* Lines 57-60: the -o value, or the derived path; unwrap() in
\* generate_output_path panics on an input with no file stem.
ResolveOutput ==
    /\ pc = "resolve_output"
    /\ LET a       == unwrap(args)
           derived == generate_output_path(a.input)
       IN  IF a.output # None
           THEN /\ UNCHANGED trace
                /\ output_path' = a.output
                /\ Continue
                /\ UNCHANGED stderr
           ELSE /\ Did("DerivePath")
                /\ IF derived = None
                   THEN /\ Exit(PANIC_CODE)
                        /\ stderr' = Append(stderr, "thread 'main' panicked: called Option::unwrap() on a None value")
                        /\ UNCHANGED output_path
                   ELSE /\ output_path' = derived
                        /\ Continue
                        /\ UNCHANGED stderr
    /\ UNCHANGED <<argv, args, overflow_checks, fs, cmd, children, written,
                   stdout, bytes_in, bytes_out>>

\* output_blocked without the negation of the overwrite flag.
output_blocked_inverted(f, out, overwrite) == exists(f, out) /\ overwrite

\* Line 63: the output exists and may not be overwritten.
output_blocked(f, out, overwrite) == exists(f, out) /\ ~overwrite

\* Lines 62-69: check if output file exists and overwrite flag.
CheckOutput ==
    /\ pc = "check_output"
    /\ Did("CheckOutput")
    /\ IF output_blocked(fs, unwrap(output_path), unwrap(args).overwrite)
       THEN /\ Exit(1)
            /\ stderr' = Append(stderr, "Error: Output file '" \o Str(unwrap(output_path))
                                        \o "' already exists. Use -y to overwrite.")
       ELSE /\ Continue
            /\ UNCHANGED stderr
    /\ UNCHANGED <<argv, args, overflow_checks, fs, output_path, cmd, children,
                   written, stdout, bytes_in, bytes_out>>

\* u32 multiplication by a small factor: a product that does not fit 32
\* bits panics in a build with overflow checks (None) and wraps in one
\* without.
u32_mul(x, m, checks) ==
    LET product == BigMulSmall(x, m)
    IN  IF is_u32(product) THEN Some(product)
        ELSE IF checks THEN None
        ELSE Some(BigLow(product, 2))

\* Line 104: args.bitrate * 2
bufsize_of(bitrate, checks) == u32_mul(bitrate, 2, checks)

\* Lines 84-87: the overwrite flag.
overwrite_params(overwrite) == IF overwrite THEN <<"-y">> ELSE <<>>

\* Lines 78-127: the parameter list of the conversion, given the buffer size.
build_command(a, out, bufsize) ==
    <<"-i", Str(a.input)>>
    \o overwrite_params(a.overwrite)
    \o <<"-c:v", "libx264", "-profile:v", "baseline", "-level", "3.0",
         "-pix_fmt", "yuv420p", "-crf", to_string(a.crf),
         "-maxrate", to_string(a.bitrate) \o "k",
         "-bufsize", to_string(bufsize) \o "k",
         "-r", to_string(a.fps)>>
    \o <<"-c:a", "aac", "-ar", "44100", "-ac", "2",
         "-b:a", to_string(a.audio_bitrate) \o "k">>
    \o <<"-movflags", "+faststart", "-f", "mp4", Str(out)>>
    \o (IF ~a.verbose THEN <<"-loglevel", "error">> ELSE <<>>)

\* Lines 71-127: announce the conversion and build the ffmpeg command; the
\* multiplication of line 104 may panic.
Assemble ==
    /\ pc = "assemble"
    /\ Did("Assemble")
    /\ LET a       == unwrap(args)
           out     == unwrap(output_path)
           bufsize == bufsize_of(a.bitrate, overflow_checks)
       IN  /\ stdout' = stdout \o
                <<"Converting '" \o Str(a.input) \o "' for Telegram compatibility...",
                  "Output: '" \o Str(out) \o "'",
                  "Settings: " \o to_string(a.bitrate) \o "kbps video, "
                      \o to_string(a.audio_bitrate) \o "kbps audio, "
                      \o to_string(a.fps) \o "fps, CRF " \o to_string(a.crf)>>
           /\ IF bufsize = None
              THEN /\ Exit(PANIC_CODE)
                   /\ stderr' = Append(stderr, "thread 'main' panicked: attempt to multiply with overflow")
                   /\ UNCHANGED cmd
              ELSE /\ cmd' = Some(build_command(a, out, unwrap(bufsize)))
                   /\ Continue
                   /\ UNCHANGED stderr
    /\ UNCHANGED <<argv, args, overflow_checks, fs, output_path, children, written,
                   bytes_in, bytes_out>>

\* The ways cmd.status() ends: the child cannot be started, or it runs and
\* ends with status 0, with status 1, or by a signal.
StatusOutcomes ==
    {[spawned |-> FALSE, code |-> None], [spawned |-> TRUE, code |-> Some(0)],
     [spawned |-> TRUE, code |-> Some(1)], [spawned |-> TRUE, code |-> None]}

\* Lines 129-132: execute the conversion and wait for it.  A child that was
\* started may or may not have written the output file.
Execute ==
    /\ pc = "execute"
    /\ Did("Run")
    /\ \E st \in StatusOutcomes, wrote \in BOOLEAN :
        /\ wrote => st.spawned
        /\ children' = Append(children,
                              Child("status", unwrap(cmd), st.spawned, st.code))
        /\ written' = IF wrote THEN written \cup {unwrap(output_path)} ELSE written
    /\ Continue
    /\ UNCHANGED <<argv, args, overflow_checks, fs, output_path, cmd, stdout,
                   stderr, bytes_in, bytes_out>>

\* ExitStatus::success
success(st) == st.spawned /\ st.code = Some(0)

\* The file sizes std::fs::metadata may report.
Sizes == {0, 1572864}

\* The elapsed times of the model, as "{:.2}" prints them.
Durations == {"0.00", "12.34"}

\* "{:.1}" of (output_size / input_size) * 100.0 for the sizes of the model,
\* none of which is near a rounding tie.
ratio_text(input_size, output_size) ==
    LET q      == (1000 * output_size) \div input_size
        r      == (1000 * output_size) % input_size
        tenths == IF 2 * r > input_size \/ (2 * r = input_size /\ q % 2 = 1)
                  THEN q + 1 ELSE q
    IN  IF input_size = 0 THEN (IF output_size = 0 THEN "NaN" ELSE "inf")
        ELSE to_string(BigOf(tenths \div 10)) \o "." \o DigitChar[(tenths % 10) + 1]

\* Lines 141-149: the size block, printed when both sizes can be read.
size_lines(input_size, output_size) ==
    <<"  Input size: " \o format_bytes(BigOf(input_size)),
      "  Output size: " \o format_bytes(BigOf(output_size)),
      "  Size ratio: " \o ratio_text(input_size, output_size) \o "%">>

\* Lines 134-162: report the outcome of the conversion.
Report ==
    /\ pc = "report"
    /\ Did("Report")
    /\ LET st  == children[Len(children)]
           a   == unwrap(args)
           out == unwrap(output_path)
           now == fs \cup written
       IN  IF ~st.spawned
           THEN /\ Exit(1)
                /\ stderr' = Append(stderr, "Failed to execute ffmpeg: No such file or directory (os error 2)")
                /\ UNCHANGED stdout
           ELSE IF success(st)
           THEN /\ Exit(0)
                /\ UNCHANGED stderr
                /\ \E d \in Durations, input_size \in Sizes, output_size \in Sizes :
                    /\ a.input = out => input_size = output_size
                    /\ stdout' = stdout
                         \o <<"Conversion successful: " \o Str(out),
                              "  Time taken: " \o d \o "s">>
                         \o (IF exists(now, a.input) /\ exists(now, out)
                             THEN size_lines(input_size, output_size)
                             ELSE <<>>)
           ELSE /\ Exit(1)
                /\ stderr' = Append(stderr, "Conversion failed with exit code: "
                                 \o (IF st.code = None THEN "None"
                                     ELSE "Some(" \o to_string(BigOf(unwrap(st.code))) \o ")"))
                /\ UNCHANGED stdout
    /\ UNCHANGED <<argv, args, overflow_checks, fs, output_path, cmd, children,
                   written, bytes_in, bytes_out>>

(***************************************************************************)
(* Spec: a run of the program, from the command line to its exit.          *)
(***************************************************************************)
Init ==
    /\ pc = "parse"
    /\ argv \in RunArgv \cup {HelpArgv}
    /\ args = None
    /\ overflow_checks \in BOOLEAN
    /\ fs \in Filesystems(argv)
    /\ output_path = None
    /\ cmd = None
    /\ children = <<>>
    /\ written = {}
    /\ stdout = <<>>
    /\ stderr = <<>>
    /\ exit_code = None
    /\ trace = <<>>
    /\ bytes_in = <<>>
    /\ bytes_out = None

Next ==
    \/ Parse
    \/ CheckInput
    \/ CheckFfmpeg
    \/ ResolveOutput
    \/ CheckOutput
    \/ Assemble
    \/ Execute
    \/ Report

Spec == Init /\ [][Next]_vars

(***************************************************************************)
(* SpecBytes: format_bytes on its own.                                     *)
(***************************************************************************)
\* x * 2^28
P28(x) == BigMulSmall(BigMulSmall(x, 2^14), 2^14)

Near(x) == {BigPred(x), x, BigAddSmall(x, 1)}

\* Quarters of a unit, t / 4 * 1024^k: the unit boundaries and the rounding
\* ties of one decimal place, each with its two neighbours.
QuarterInputs ==
    UNION {Near(BigShl10(BigOf(256 * t), k - 1)) :
               t \in 4..(4 * MaxMant + 4), k \in 1..6}

\* Counts of 2^53 and more, where `as f64` rounds: quarters of a GB again.
LargeInputs ==
    UNION {Near(P28(BigAddSmall(BigMulSmall(BigOf(2^25), 2^e), t))) :
               e \in 0..10, t \in 0..(4 * MaxMant)}

U64_MAX == <<Base - 1, Base - 1, Base - 1, Base - 1>>

ByteInputs ==
    {BigOf(n) : n \in {0, 1, 500, 1023, 2048, 1572864}}
    \cup QuarterInputs \cup LargeInputs \cup {U64_MAX}

InitBytes ==
    /\ pc = "format_bytes"
    /\ argv = HelpArgv
    /\ args = None
    /\ overflow_checks = FALSE
    /\ fs = {}
    /\ output_path = None
    /\ cmd = None
    /\ children = <<>>
    /\ written = {}
    /\ stdout = <<>>
    /\ stderr = <<>>
    /\ exit_code = None
    /\ trace = <<>>
    /\ bytes_in \in ByteInputs
    /\ bytes_out = None

FormatBytes ==
    /\ pc = "format_bytes"
    /\ bytes_out = None
    /\ bytes_out' = Some(format_bytes(bytes_in))
    /\ UNCHANGED <<pc, argv, args, overflow_checks, fs, output_path, cmd, children,
                   written, stdout, stderr, exit_code, trace, bytes_in>>

NextBytes == FormatBytes

SpecBytes == InitBytes /\ [][NextBytes]_vars

(***************************************************************************)
(* Properties of a run.                                                    *)
(***************************************************************************)
Range(f) == {f[i] : i \in DOMAIN f}

Parsed == args # None

Exited == exit_code # None

\* The children launched by cmd.status() (the conversion) and by
\* is_ffmpeg_available (the version probe).
Conversions == {i \in DOMAIN children : children[i].call = "status"}

Probes == {i \in DOMAIN children : children[i].call = "output"}

\* The -o value, or the path derived from the input when -o is omitted.
ResolvedOutput ==
    IF unwrap(args).output # None THEN unwrap(args).output
    ELSE generate_output_path(unwrap(args).input)

\* The parameter that follows `flag` in a parameter list.
ParamAfter(params, flag) ==
    params[(CHOOSE i \in DOMAIN params : params[i] = flag) + 1]

\* C1: every run that gets past argument parsing ends with exit code 0 or 1,
\* and with 0 exactly when the conversion was launched and ended with
\* status 0; no stage ends the process with another status.
C1_ExitCodes ==
    (Parsed /\ pc = "exited") =>
        /\ exit_code \in {Some(0), Some(1)}
        /\ exit_code = Some(0) <=>
               \E i \in Conversions : children[i].spawned /\ children[i].code = Some(0)

\* C2: when the input path does not exist the run exits with code 1 after a
\* diagnostic naming the path, launches no child process (neither the probe
\* nor the conversion) and creates or modifies no file.
C2_InputMissing ==
    (Parsed /\ ~exists(fs, unwrap(args).input)) =>
        /\ children = <<>>
        /\ written = {}
        /\ stdout = <<>>
        /\ pc \in {"check_input", "exited"}
        /\ pc = "exited" =>
               /\ exit_code = Some(1)
               /\ stderr = <<"Error: File '" \o Str(unwrap(args).input) \o "' not found">>

C2_Witness ==
    /\ Parsed
    /\ pc = "exited"
    /\ ~exists(fs, unwrap(args).input)
    /\ unwrap(args).input # <<>>
    /\ unwrap(args).output # None
    /\ exists(fs, unwrap(unwrap(args).output))

\* C3: when the resolved output path exists and overwrite is false, the run
\* exits with code 1 and never launches the conversion.
C3_OutputExists ==
    (/\ Parsed
     /\ ResolvedOutput # None
     /\ exists(fs, unwrap(ResolvedOutput))
     /\ ~unwrap(args).overwrite) =>
        /\ Conversions = {}
        /\ written = {}
        /\ pc \notin {"assemble", "execute", "report"}
        /\ pc = "exited" => exit_code = Some(1)

C3_Witness ==
    /\ Parsed
    /\ pc = "exited"
    /\ trace[Len(trace)] = "CheckOutput"
    /\ unwrap(args).output = None
    /\ exists(fs, unwrap(ResolvedOutput))
    /\ ~unwrap(args).overwrite
    /\ exit_code = Some(1)

\* C4 as stated: when the output-exists check is evaluated, no child process
\* has been launched and no file has been created or modified.
C4_NoChildBeforeOutputCheck ==
    pc = "check_output" => (children = <<>> /\ written = {})

\* C4 as amended: when the output-exists check is evaluated the only child
\* process launched is the encoder's version probe; the conversion has not
\* been launched and no file has been created or modified, and neither
\* happens in a run in which the check does not pass.
C4_OnlyProbeBeforeOutputCheck ==
    /\ pc = "check_output" =>
           /\ written = {}
           /\ Len(children) = 1
           /\ children[1].call = "output"
           /\ children[1].params = <<"-version">>
    /\ (Conversions # {} \/ written # {}) =>
           /\ \E i \in DOMAIN trace : trace[i] = "CheckOutput"
           /\ ~(exists(fs, unwrap(output_path)) /\ ~unwrap(args).overwrite)

C4_Witness ==
    /\ pc = "check_output"
    /\ Len(children) = 1
    /\ exists(fs, unwrap(output_path))
    /\ ~unwrap(args).overwrite

\* C5: the conversion is launched only after the version probe was started
\* successfully in the same run; a probe that cannot be started ends the
\* run with code 1 before any conversion child.
C5_ProbeBeforeConversion ==
    /\ \A i \in Conversions :
           \E j \in Probes : j < i /\ children[j].spawned
    /\ \A j \in Probes :
           ~children[j].spawned =>
               /\ Conversions = {}
               /\ pc = "exited"
               /\ exit_code = Some(1)

C5_Witness ==
    /\ pc = "exited"
    /\ Len(children) = 1
    /\ ~children[1].spawned
    /\ exit_code = Some(1)

\* C6: a launched conversion carries "-y" exactly when overwrite is true, and
\* a run whose input exists, whose probe succeeds, whose resolved output
\* exists and whose overwrite flag is true launches it with "-y".
C6_OverwriteFlag ==
    /\ \A i \in Conversions :
           "-y" \in Range(children[i].params) <=> unwrap(args).overwrite
    /\ (/\ Parsed
        /\ pc = "exited"
        /\ exists(fs, unwrap(args).input)
        /\ \E j \in Probes : children[j].spawned
        /\ ResolvedOutput # None
        /\ exists(fs, unwrap(ResolvedOutput))
        /\ unwrap(args).overwrite) =>
           \E i \in Conversions : "-y" \in Range(children[i].params)

\* The first half of C6 alone: "-y" is passed exactly when overwrite is true.
C6_FlagIffOverwrite ==
    \A i \in Conversions :
        "-y" \in Range(children[i].params) <=> unwrap(args).overwrite

\* C7: for every accepted bitrate b the assembled parameters carry
\* -maxrate "<b>k" and -bufsize "<2*b>k", 2*b being the mathematical double,
\* and computing it does not abort.
C7_BufsizeTwiceBitrate ==
    (\E i \in DOMAIN trace : trace[i] = "Assemble") =>
        /\ cmd # None
        /\ ParamAfter(unwrap(cmd), "-maxrate") = to_string(unwrap(args).bitrate) \o "k"
        /\ ParamAfter(unwrap(cmd), "-bufsize")
               = to_string(BigMulSmall(unwrap(args).bitrate, 2)) \o "k"

\* The path C8 describes for an input: the text before the last separator,
\* a separator, the text after it without its final extension, and
\* "_telegram.mp4"; no directory part when the input has no separator.
DescribedOutput(p) ==
    LET i    == rposition_sep(p)
        dir  == SubSeq(p, 1, i - 1)
        name == SubSeq(p, i + 1, Len(p))
        j    == rposition_dot(name)
        stem == IF j > 1 THEN SubSeq(name, 1, j - 1) ELSE name
    IN  IF i = 0 THEN stem \o Suffix
        ELSE IF i = 1 THEN <<"/">> \o stem \o Suffix
        ELSE dir \o <<"/">> \o stem \o Suffix

\* The inputs whose directory and file name can be read off the text: the
\* text after the last separator is a file name, and the text before it ends
\* with neither a separator nor a "." component.
PlainInput(p) ==
    LET i    == rposition_sep(p)
        dir  == SubSeq(p, 1, i - 1)
        name == SubSeq(p, i + 1, Len(p))
    IN  /\ name \notin {<<>>, <<".">>, <<".", ".">>}
        /\ dir # <<>> => ~is_sep(dir[Len(dir)])
        /\ Len(dir) >= 2 => SubSeq(dir, Len(dir) - 1, Len(dir)) # <<"/", ".">>

\* C8: for every input that passed the existence check with no -o given,
\* generate_output_path returns a path (also for "/", "." and ".."), and the
\* path is <input-dir>/<input-stem>_telegram.mp4.
C8_DerivedPath ==
    (\E i \in DOMAIN trace : trace[i] = "DerivePath") =>
        /\ output_path # None
        /\ PlainInput(unwrap(args).input) =>
               unwrap(output_path) = DescribedOutput(unwrap(args).input)

\* The second half of C8 alone: the path derived for a plain input.
C8_PlainInputs ==
    (/\ \E i \in DOMAIN trace : trace[i] = "DerivePath"
     /\ PlainInput(unwrap(args).input)) =>
        /\ output_path # None
        /\ unwrap(output_path) = DescribedOutput(unwrap(args).input)

\* The stages in the order C10 gives them, with the whole of Preflight
\* before DerivePath.
ClaimedRank(stage) ==
    CASE stage = "Parse"       -> 1
      [] stage = "CheckInput"  -> 2
      [] stage = "CheckFfmpeg" -> 3
      [] stage = "CheckOutput" -> 4
      [] stage = "DerivePath"  -> 5
      [] stage = "Assemble"    -> 6
      [] stage = "Run"         -> 7
      [] stage = "Report"      -> 8

\* The stages in the order of main: the output path is derived before the
\* output-exists check.
CodeRank(stage) ==
    CASE stage = "Parse"       -> 1
      [] stage = "CheckInput"  -> 2
      [] stage = "CheckFfmpeg" -> 3
      [] stage = "DerivePath"  -> 4
      [] stage = "CheckOutput" -> 5
      [] stage = "Assemble"    -> 6
      [] stage = "Run"         -> 7
      [] stage = "Report"      -> 8

\* C10 as stated: the stages run in the order Parse, Preflight (input check,
\* probe, output check), DerivePath, Assemble, Run, Report, each at most once.
C10_ClaimedOrder ==
    \A i, j \in DOMAIN trace : i < j => ClaimedRank(trace[i]) < ClaimedRank(trace[j])

\* C10 as amended: the stages run in the order Parse, input check, probe,
\* DerivePath (only when no output was given), output check, Assemble, Run,
\* Report, each at most once and none skipped; the conversion is launched at
\* most once; and once the process has exited no stage executes.
C10_LinearStages ==
    /\ [](/\ \A i, j \in DOMAIN trace : i < j => CodeRank(trace[i]) < CodeRank(trace[j])
          /\ \A i \in DOMAIN trace :
                 /\ trace[i] = "DerivePath" => unwrap(args).output = None
                 /\ i > 1 => CodeRank(trace[i]) - CodeRank(trace[i - 1])
                                 = (IF trace[i] = "CheckOutput" /\ trace[i - 1] = "CheckFfmpeg"
                                    THEN 2 ELSE 1)
          /\ Cardinality(Conversions) <= 1
          /\ Cardinality(Conversions) = Cardinality({i \in DOMAIN trace : trace[i] = "Run"}))
    /\ [][exit_code # None => UNCHANGED vars]_vars

C10_Witness ==
    /\ pc = "exited"
    /\ trace = <<"Parse", "CheckInput", "CheckFfmpeg", "DerivePath", "CheckOutput",
                 "Assemble", "Run", "Report">>
    /\ exit_code = Some(1)

(***************************************************************************)
(* Properties of format_bytes.                                             *)
(***************************************************************************)
\* The number of whole 1024-fold reductions of n, capped at 3.
ReductionsOf(n) ==
    CHOOSE k \in 0..3 :
        /\ k > 0 => ~BigLess(n, BigShl10(BigOf(1), k))
        /\ k < 3 => BigLess(n, BigShl10(BigOf(1), k + 1))

\* A number of tenths and a unit as text, such as "1.5 MB".
Shown(tenths, k) ==
    to_string(BigDivMod(tenths, 10).q) \o "."
        \o DigitChar[BigDivMod(tenths, 10).r + 1] \o " " \o UNITS[k + 1]

\* The texts that show n / 1024^k with one decimal place: the nearest tenth
\* (either neighbour on a tie) for n below 2^53; for larger n, which an f64
\* does not hold exactly, either tenth next to the quotient.
ShownQuotients(n) ==
    LET k     == ReductionsOf(n)
        floor == BigShr10(BigMulSmall(n, 10), k)
        r     == BigRem10(BigMulSmall(n, 10), k)
        d     == 2^(10 * k)
        down  == Shown(floor, k)
        up    == Shown(BigAddSmall(floor, 1), k)
    IN  IF r = 0 THEN {down}
        ELSE IF BigBitLen(n) > 53 \/ 2 * r = d THEN {down, up}
        ELSE IF 2 * r < d THEN {down}
        ELSE {up}

\* C9: format_bytes(n) is n / 1024^k with one decimal place and the k-th
\* unit of B, KB, MB, GB, k being the number of whole 1024-fold reductions
\* capped at 3.
C9_FormatBytes ==
    bytes_out # None =>
        /\ unwrap(bytes_out) \in ShownQuotients(bytes_in)
        /\ bytes_in = BigOf(500) => unwrap(bytes_out) = "500.0 B"
        /\ bytes_in = BigOf(2048) => unwrap(bytes_out) = "2.0 KB"
        /\ bytes_in = BigOf(1572864) => unwrap(bytes_out) = "1.5 MB"
        /\ bytes_in = BigOf(1073741824) => unwrap(bytes_out) = "1.0 GB"
        /\ bytes_in = BigShl10(BigOf(1), 4) => unwrap(bytes_out) = "1024.0 GB"

C9_Witness ==
    /\ bytes_in = BigShl10(BigOf(1), 4)
    /\ bytes_out = Some("1024.0 GB")

=============================================================================
